---- MODULE Spec2Model ----
(***************************************************************************)
(* Model of graceful.Server.Serve (src/graceful.go): the connection        *)
(* tracker goroutine, the shutdown watcher goroutine, the Serve body       *)
(* itself, the ConnState hook run by the http engine's connection          *)
(* goroutines, and the party that delivers shutdown notifications.         *)
(* Unbuffered Go channels are modelled as rendezvous: a send and the       *)
(* matching receive are one action that moves both goroutines.             *)
(***************************************************************************)
EXTENDS Integers, Sequences, FiniteSets, TLC

\* ------------------------------------------------------------------ bounds
MaxConns == 2
MaxEvents == 3
MaxSignals == 2

\* capacity of the signal channel: make(chan os.Signal, 1)
SigCap == 1

Conns == 1..MaxConns

\* the Timeout values that matter to the code: srv.Timeout > 0 or not
Timeouts == {0, 1}

VARIABLES
  Timeout,        \* srv.Timeout
  Signal,         \* srv.Signal /= nil
  Cancel,         \* srv.Cancel /= nil
  opc,            \* position of the Serve body
  err,            \* value returned by srv.Server.Serve(listener)
  ret,            \* value returned by Serve ("none" until it returns)
  timer,          \* time.After(srv.Timeout): "off", "running", "fired"
  tpc,            \* position of the tracker goroutine
  connections,    \* the tracker's map
  done,           \* the tracker's done variable is non-nil
  doneBy,         \* the select case in which the tracker sent on done
  wpc,            \* position of the watcher goroutine
  wokenBy,        \* the select case the watcher took
  sig,            \* the local sig is non-nil
  notified,       \* signal.Notify registration is in force
  nNotify,        \* calls of signal.Notify
  nSigStop,       \* calls of signal.Stop
  sigBuf,         \* values buffered in the signal channel
  sigClosed,      \* the signal channel is closed
  cancelClosed,   \* the cancel channel is closed
  stopListener,   \* the stopListener channel is closed
  keepAlives,     \* keep-alives enabled on the http.Server
  nKeepOff,       \* calls of SetKeepAlivesEnabled(false)
  listenerCloses, \* calls of listener.Close()
  cstate,         \* last state the engine reported for each connection
  hpc,            \* position of each connection's ConnState hook call
  reported,       \* per connection, the states the engine reported
  observed,       \* per connection, the states srv.ConnState was called with
  forceClosed,    \* connections on which the tracker called Close()
  everTracked,    \* connections that were ever inserted in the map
  lateTracked,    \* a connection was inserted while done was non-nil
  nStop,          \* requests received on the stop channel
  nSent,          \* notifications delivered so far
  panicked,       \* the delivering party panicked (send on closed channel)
  run,            \* what Run did with ListenAndServe's result
  runErr          \* the error ListenAndServe returned to Run

cfgVars == <<Timeout, Signal, Cancel>>
orchVars == <<opc, err, ret, timer, stopListener>>
trackVars == <<tpc, connections, done, doneBy, forceClosed, everTracked,
               lateTracked, nStop>>
watchVars == <<wpc, wokenBy, sig, notified, nNotify, nSigStop, keepAlives,
               nKeepOff, listenerCloses>>
chanVars == <<sigBuf, sigClosed, cancelClosed>>
connVars == <<cstate, hpc, reported, observed>>
userVars == <<nSent, panicked>>
runVars == <<run, runErr>>
vars == <<cfgVars, orchVars, trackVars, watchVars, chanVars, connVars, userVars,
          runVars>>

\* ------------------------------------------------------------------- Init
\* The state when Serve reaches srv.Server.Serve(listener): the hook is
\* installed, both goroutines are started and wait in their select.
\* Variant that sets up the default signal source whenever no Signal
\* channel was supplied, whether or not a Cancel channel was.
DefaultSignal_IgnoresCancel(s, c) == ~s

\* if sig == nil && cancel == nil
DefaultSignal(s, c) == ~s /\ ~c

ServeInit ==
  /\ Timeout \in Timeouts
  /\ Signal \in BOOLEAN
  /\ Cancel \in BOOLEAN
  /\ opc = "serving"
  /\ err = "none"
  /\ ret = "none"
  /\ timer = "off"
  /\ tpc = "select"
  /\ connections = {}
  /\ done = FALSE
  /\ doneBy = "none"
  /\ wpc = "select"
  /\ wokenBy = "none"
  /\ sig = (Signal \/ DefaultSignal(Signal, Cancel))
  /\ notified = DefaultSignal(Signal, Cancel)
  /\ nNotify = (IF DefaultSignal(Signal, Cancel) THEN 1 ELSE 0)
  /\ nSigStop = 0
  /\ sigBuf = 0
  /\ sigClosed = FALSE
  /\ cancelClosed = FALSE
  /\ stopListener = FALSE
  /\ keepAlives = TRUE
  /\ nKeepOff = 0
  /\ listenerCloses = 0
  /\ cstate = [c \in Conns |-> "none"]
  /\ hpc = [c \in Conns |-> "idle"]
  /\ reported = [c \in Conns |-> <<>>]
  /\ observed = [c \in Conns |-> <<>>]
  /\ forceClosed = {}
  /\ everTracked = {}
  /\ lateTracked = FALSE
  /\ nStop = 0
  /\ nSent = 0
  /\ panicked = FALSE

\* Serve called directly by the program: Run is not on the stack
Init ==
  /\ ServeInit
  /\ run = "none"
  /\ runErr = "none"

\* ----------------------------------------------------- the http engine
\* States the engine may report next for a connection whose last reported
\* state is s (http.ConnState: New, Active, Idle, Hijacked, Closed).
NextStates(s) ==
  CASE s = "New" -> {"Active", "Closed"}
    [] s = "Active" -> {"Idle", "Closed", "Hijacked"}
    [] s = "Idle" -> {"Active", "Closed"}
    [] OTHER -> {}

\* The switch of the hook: the channel it sends the connection on.
HookSends(s) ==
  CASE s = "Active" -> "add"
    [] s \in {"Closed", "Idle"} -> "remove"
    [] OTHER -> "none"

\* if hook := srv.ConnState; hook != nil { hook(conn, state) }, and the
\* installed hook returns.  It follows the switch in the same goroutine and
\* touches nothing the other goroutines read, so it is taken in one step
\* with what precedes it.
CallObserver(c, s) ==
  /\ observed' = [observed EXCEPT ![c] = Append(@, s)]
  /\ hpc' = [hpc EXCEPT ![c] = "idle"]

\* The engine calls srv.Server.ConnState(conn, s): the hook blocks in its
\* send, or has no send to make and goes on to the observer.
CallHook(c, s) ==
  /\ cstate' = [cstate EXCEPT ![c] = s]
  /\ reported' = [reported EXCEPT ![c] = Append(@, s)]
  /\ IF HookSends(s) = "none"
       THEN CallObserver(c, s)
       ELSE /\ hpc' = [hpc EXCEPT ![c] = HookSends(s)]
            /\ UNCHANGED observed

\* The serve loop accepts a connection: only while it runs and the listener
\* is open.  Connections are accepted in index order (they are symmetric).
Accept(c) ==
  /\ opc = "serving"
  /\ listenerCloses = 0
  /\ cstate[c] = "none"
  /\ \A d \in Conns : d < c => cstate[d] /= "none"
  /\ CallHook(c, "New")
  /\ UNCHANGED <<runVars, cfgVars, orchVars, trackVars, watchVars, chanVars, userVars>>

\* A connection goroutine reports its next state, once its previous hook
\* call has returned.  A connection closed under it can only report Closed.
Report(c, s) ==
  /\ hpc[c] = "idle"
  /\ s \in NextStates(cstate[c])
  /\ c \in forceClosed => s = "Closed"
  /\ s = "Closed" \/ Len(reported[c]) < MaxEvents
  /\ CallHook(c, s)
  /\ UNCHANGED <<runVars, cfgVars, orchVars, trackVars, watchVars, chanVars, userVars>>

\* ------------------------------------------------------------ the tracker
\* Variant of the stop case that answers without testing len(connections).
TrackerAfterStop_NoCheck(conns) == "sendDone"

\* Variant of the remove case that never sends on done.
TrackerAfterRemove_NoSignal(d, conns) == "select"

\* Variant of the remove case that sends on done without testing
\* len(connections).
TrackerAfterRemove_AnyRemove(d, conns) == IF d THEN "sendDone" ELSE "select"

\* case done = <-stop: if len(connections) == 0 { done <- ...; return }
TrackerAfterStop(conns) == IF conns = {} THEN "sendDone" ELSE "select"

\* case conn := <-remove: if done != nil && len(connections) == 0 { ... }
TrackerAfterRemove(d, conns) == IF d /\ conns = {} THEN "sendDone" ELSE "select"

\* variant of the add case: a tracker that ignores add once done is set
TrackerAdd_DropWhenDraining(c) ==
  /\ tpc = "select"
  /\ hpc[c] = "add"
  /\ connections' = (IF done THEN connections ELSE connections \cup {c})
  /\ everTracked' = (IF done THEN everTracked ELSE everTracked \cup {c})
  /\ lateTracked' = lateTracked
  /\ CallObserver(c, cstate[c])
  /\ UNCHANGED <<tpc, done, doneBy, forceClosed, nStop, cstate, reported>>
  /\ UNCHANGED <<runVars, cfgVars, orchVars, watchVars, chanVars, userVars>>

\* add <- conn in the hook meets case conn := <-add in the tracker
TrackerAdd(c) ==
  /\ tpc = "select"
  /\ hpc[c] = "add"
  /\ connections' = connections \cup {c}
  /\ everTracked' = everTracked \cup {c}
  /\ lateTracked' = (lateTracked \/ done)
  /\ CallObserver(c, cstate[c])
  /\ UNCHANGED <<tpc, done, doneBy, forceClosed, nStop, cstate, reported>>
  /\ UNCHANGED <<runVars, cfgVars, orchVars, watchVars, chanVars, userVars>>

\* remove <- conn in the hook meets case conn := <-remove in the tracker
TrackerRemove(c) ==
  /\ tpc = "select"
  /\ hpc[c] = "remove"
  /\ connections' = connections \ {c}
  /\ tpc' = TrackerAfterRemove(done, connections')
  /\ doneBy' = (IF tpc' = "sendDone" THEN "remove" ELSE doneBy)
  /\ CallObserver(c, cstate[c])
  /\ UNCHANGED <<done, forceClosed, everTracked, lateTracked, nStop, cstate, reported>>
  /\ UNCHANGED <<runVars, cfgVars, orchVars, watchVars, chanVars, userVars>>

\* stop <- done in Serve meets case done = <-stop in the tracker; Serve goes
\* on to its wait, where time.After(srv.Timeout) starts when Timeout > 0.
TrackerStop ==
  /\ tpc = "select"
  /\ opc = "sendStop"
  /\ done' = TRUE
  /\ nStop' = nStop + 1
  /\ tpc' = TrackerAfterStop(connections)
  /\ doneBy' = (IF tpc' = "sendDone" THEN "stop" ELSE doneBy)
  /\ opc' = "wait"
  /\ timer' = (IF Timeout > 0 THEN "running" ELSE "off")
  /\ UNCHANGED <<err, ret, stopListener, connections, forceClosed, everTracked, lateTracked>>
  /\ UNCHANGED <<runVars, cfgVars, watchVars, chanVars, connVars, userVars>>

\* Variant of the kill path in which Serve returns nil instead of err.
TrackerKill_ReturnsNil ==
  /\ tpc = "select"
  /\ opc = "sendKill"
  /\ tpc' = "killing"
  /\ opc' = "returned"
  /\ ret' = "nil"
  /\ UNCHANGED <<err, timer, stopListener, connections, done, doneBy, forceClosed,
                 everTracked, lateTracked, nStop>>
  /\ UNCHANGED <<runVars, cfgVars, watchVars, chanVars, connVars, userVars>>

\* kill <- struct{}{} in Serve meets case <-kill in the tracker; Serve
\* returns err at once.
TrackerKill ==
  /\ tpc = "select"
  /\ opc = "sendKill"
  /\ tpc' = "killing"
  /\ opc' = "returned"
  /\ ret' = err
  /\ UNCHANGED <<err, timer, stopListener, connections, done, doneBy, forceClosed,
                 everTracked, lateTracked, nStop>>
  /\ UNCHANGED <<runVars, cfgVars, watchVars, chanVars, connVars, userVars>>

\* for k := range connections { k.Close() }
TrackerKillClose(c) ==
  /\ tpc = "killing"
  /\ c \in connections \ forceClosed
  /\ forceClosed' = forceClosed \cup {c}
  /\ UNCHANGED <<tpc, connections, done, doneBy, everTracked, lateTracked, nStop>>
  /\ UNCHANGED <<runVars, cfgVars, orchVars, watchVars, chanVars, connVars, userVars>>

\* the return after the kill loop
TrackerKillExit ==
  /\ tpc = "killing"
  /\ connections \subseteq forceClosed
  /\ tpc' = "killed"
  /\ UNCHANGED <<connections, done, doneBy, forceClosed, everTracked, lateTracked, nStop>>
  /\ UNCHANGED <<runVars, cfgVars, orchVars, watchVars, chanVars, connVars, userVars>>

\* Variant of the done hand-off after which the tracker does not return
\* but goes back to its select.
DoneSignal_NoReturn ==
  /\ tpc = "sendDone"
  /\ opc = "wait"
  /\ tpc' = "select"
  /\ opc' = "returned"
  /\ ret' = err
  /\ UNCHANGED <<err, timer, stopListener, connections, done, doneBy, forceClosed,
                 everTracked, lateTracked, nStop>>
  /\ UNCHANGED <<runVars, cfgVars, watchVars, chanVars, connVars, userVars>>

\* done <- struct{}{} in the tracker meets <-done in Serve; the tracker
\* returns and Serve returns err.
DoneSignal ==
  /\ tpc = "sendDone"
  /\ opc = "wait"
  /\ tpc' = "drained"
  /\ opc' = "returned"
  /\ ret' = err
  /\ UNCHANGED <<err, timer, stopListener, connections, done, doneBy, forceClosed,
                 everTracked, lateTracked, nStop>>
  /\ UNCHANGED <<runVars, cfgVars, watchVars, chanVars, connVars, userVars>>

\* ----------------------------------------------------------- Serve body
\* err := srv.Server.Serve(listener) returns because Accept failed on the
\* closed listener ...
ServeLoopClosed ==
  /\ opc = "serving"
  /\ listenerCloses > 0
  /\ err' = "closed"
  /\ opc' = "closeStop"
  /\ UNCHANGED <<ret, timer, stopListener>>
  /\ UNCHANGED <<runVars, cfgVars, trackVars, watchVars, chanVars, connVars, userVars>>

\* ... or on its own, with a fault unrelated to shutdown.
ServeLoopFault ==
  /\ opc = "serving"
  /\ err' = "fault"
  /\ opc' = "closeStop"
  /\ UNCHANGED <<ret, timer, stopListener>>
  /\ UNCHANGED <<runVars, cfgVars, trackVars, watchVars, chanVars, connVars, userVars>>

\* close(stopListener)
CloseStopListener ==
  /\ opc = "closeStop"
  /\ stopListener' = TRUE
  /\ opc' = "sendStop"
  /\ UNCHANGED <<err, ret, timer>>
  /\ UNCHANGED <<runVars, cfgVars, trackVars, watchVars, chanVars, connVars, userVars>>

\* the timer of time.After(srv.Timeout) fires
TimerFire ==
  /\ timer = "running"
  /\ timer' = "fired"
  /\ UNCHANGED <<opc, err, ret, stopListener>>
  /\ UNCHANGED <<runVars, cfgVars, trackVars, watchVars, chanVars, connVars, userVars>>

\* Variant of the wait that goes on to kill without srv.Timeout > 0 and
\* without the timer.
OrchTimeout_NoTimer ==
  /\ opc = "wait"
  /\ opc' = "sendKill"
  /\ UNCHANGED <<err, ret, timer, stopListener>>
  /\ UNCHANGED <<runVars, cfgVars, trackVars, watchVars, chanVars, connVars, userVars>>

\* case <-time.After(srv.Timeout): Serve goes on to kill <- struct{}{}
OrchTimeout ==
  /\ opc = "wait"
  /\ Timeout > 0
  /\ timer = "fired"
  /\ opc' = "sendKill"
  /\ UNCHANGED <<err, ret, timer, stopListener>>
  /\ UNCHANGED <<runVars, cfgVars, trackVars, watchVars, chanVars, connVars, userVars>>

\* ----------------------------------------------------------- the watcher
\* select { case <-stopListener: case <-sig: case <-cancel: }
\* A receive on a nil channel never proceeds.
WatcherWakeStop ==
  /\ wpc = "select"
  /\ stopListener
  /\ wokenBy' = "stop"
  /\ wpc' = "teardown"
  /\ UNCHANGED <<sig, notified, nNotify, nSigStop, keepAlives, nKeepOff, listenerCloses>>
  /\ UNCHANGED <<runVars, cfgVars, orchVars, trackVars, chanVars, connVars, userVars>>

WatcherWakeSig ==
  /\ wpc = "select"
  /\ sig
  /\ sigBuf > 0
  /\ sigBuf' = sigBuf - 1
  /\ wokenBy' = "sig"
  /\ wpc' = "teardown"
  /\ UNCHANGED <<sig, notified, nNotify, nSigStop, keepAlives, nKeepOff, listenerCloses>>
  /\ UNCHANGED <<sigClosed, cancelClosed>>
  /\ UNCHANGED <<runVars, cfgVars, orchVars, trackVars, connVars, userVars>>

WatcherWakeCancel ==
  /\ wpc = "select"
  /\ Cancel
  /\ cancelClosed
  /\ wokenBy' = "cancel"
  /\ wpc' = "teardown"
  /\ UNCHANGED <<sig, notified, nNotify, nSigStop, keepAlives, nKeepOff, listenerCloses>>
  /\ UNCHANGED <<runVars, cfgVars, orchVars, trackVars, chanVars, connVars, userVars>>

\* if sig != nil { signal.Stop(sig); close(sig) }
WatcherSignalStop ==
  /\ wpc = "teardown"
  /\ IF sig
       THEN /\ notified' = FALSE
            /\ nSigStop' = nSigStop + 1
            /\ sigClosed' = TRUE
       ELSE UNCHANGED <<notified, nSigStop, sigClosed>>
  /\ wpc' = "closing"
  /\ UNCHANGED <<wokenBy, sig, nNotify, keepAlives, nKeepOff, listenerCloses>>
  /\ UNCHANGED <<sigBuf, cancelClosed>>
  /\ UNCHANGED <<runVars, cfgVars, orchVars, trackVars, connVars, userVars>>

\* Variant of the teardown in which the watcher goes back to its select.
WatcherCloseListener_Loops ==
  /\ wpc = "closing"
  /\ keepAlives' = FALSE
  /\ nKeepOff' = nKeepOff + 1
  /\ listenerCloses' = listenerCloses + 1
  /\ wpc' = "select"
  /\ UNCHANGED <<wokenBy, sig, notified, nNotify, nSigStop>>
  /\ UNCHANGED <<runVars, cfgVars, orchVars, trackVars, chanVars, connVars, userVars>>

\* Variant of the teardown that leaves the listener open.
WatcherCloseListener_NoClose ==
  /\ wpc = "closing"
  /\ keepAlives' = FALSE
  /\ nKeepOff' = nKeepOff + 1
  /\ wpc' = "done"
  /\ UNCHANGED <<wokenBy, sig, notified, nNotify, nSigStop, listenerCloses>>
  /\ UNCHANGED <<runVars, cfgVars, orchVars, trackVars, chanVars, connVars, userVars>>

\* srv.SetKeepAlivesEnabled(false); listener.Close(); the goroutine ends
WatcherCloseListener ==
  /\ wpc = "closing"
  /\ keepAlives' = FALSE
  /\ nKeepOff' = nKeepOff + 1
  /\ listenerCloses' = listenerCloses + 1
  /\ wpc' = "done"
  /\ UNCHANGED <<wokenBy, sig, notified, nNotify, nSigStop>>
  /\ UNCHANGED <<runVars, cfgVars, orchVars, trackVars, chanVars, connVars, userVars>>

\* ------------------------------------- the party delivering notifications
\* c <- os.Interrupt on the supplied Signal channel: panics when the channel
\* is closed, blocks while its buffer is full.
SendSignal ==
  /\ Signal
  /\ ~panicked
  /\ nSent < MaxSignals
  /\ IF sigClosed
       THEN /\ panicked' = TRUE
            /\ UNCHANGED sigBuf
       ELSE /\ sigBuf < SigCap
            /\ sigBuf' = sigBuf + 1
            /\ UNCHANGED panicked
  /\ nSent' = nSent + 1
  /\ UNCHANGED <<sigClosed, cancelClosed>>
  /\ UNCHANGED <<runVars, cfgVars, orchVars, trackVars, watchVars, connVars>>

\* SIGINT or SIGTERM reaches the process while signal.Notify is in force:
\* the runtime delivers without blocking and drops the signal if the
\* buffer is full.
OSSignal ==
  /\ notified
  /\ nSent < MaxSignals
  /\ sigBuf' = (IF sigBuf < SigCap THEN sigBuf + 1 ELSE sigBuf)
  /\ nSent' = nSent + 1
  /\ UNCHANGED <<panicked, sigClosed, cancelClosed>>
  /\ UNCHANGED <<runVars, cfgVars, orchVars, trackVars, watchVars, connVars>>

\* close(c2) on the supplied Cancel channel
CloseCancel ==
  /\ Cancel
  /\ ~cancelClosed
  /\ cancelClosed' = TRUE
  /\ UNCHANGED <<sigBuf, sigClosed>>
  /\ UNCHANGED <<runVars, cfgVars, orchVars, trackVars, watchVars, connVars, userVars>>

\* ------------------------------------------------------------------ Next
Engine == \E c \in Conns : Accept(c) \/ (\E s \in {"Active", "Idle", "Closed", "Hijacked"} : Report(c, s))

Hook(c) == TrackerAdd(c) \/ TrackerRemove(c)

Tracker ==
  \/ TrackerStop
  \/ TrackerKill
  \/ \E c \in Conns : TrackerKillClose(c)
  \/ TrackerKillExit
  \/ DoneSignal

Orchestrator ==
  \/ ServeLoopClosed
  \/ ServeLoopFault
  \/ CloseStopListener
  \/ OrchTimeout

Watcher ==
  \/ WatcherWakeStop
  \/ WatcherWakeSig
  \/ WatcherWakeCancel
  \/ WatcherSignalStop
  \/ WatcherCloseListener

Deliverer == SendSignal \/ OSSignal \/ CloseCancel

Next ==
  \/ Engine
  \/ \E c \in Conns : Hook(c)
  \/ Tracker
  \/ Orchestrator
  \/ TimerFire
  \/ Watcher
  \/ Deliverer

Spec == Init /\ [][Next]_vars

\* ------------------------------------------------------------------ Run
\* The errors ListenAndServe can hand to Run.  net.Listen fails with a
\* *net.OpError whose Op is "listen"; every error of a TCP listener's
\* Accept is a *net.OpError whose Op is "accept", whether the listener was
\* closed ("acceptClosed") or the accept failed for another reason
\* ("acceptOther"); "plain" is an error of any other type, "nil" is none.
\* opErr, ok := err.(*net.OpError)
IsOpError(e) == e \in {"listen", "acceptClosed", "acceptOther"}

\* opErr.Op
OpOf(e) == IF e = "listen" THEN "listen" ELSE "accept"

\* err != nil && (!ok || (ok && opErr.Op != "accept"))
RunFatal(e) == e /= "nil" /\ (~IsOpError(e) \/ (IsOpError(e) /\ OpOf(e) /= "accept"))

\* The errors Serve's return value r stands for when the listener is the
\* TCP listener ListenAndServe made.
ErrorsOf(r) ==
  CASE r = "closed" -> {"acceptClosed"}
    [] r = "fault" -> {"acceptOther"}
    [] OTHER -> {}

\* Run's if statement applied to the error e of srv.ListenAndServe()
RunHandle(e) ==
  /\ runErr' = e
  /\ run' = (IF RunFatal(e) THEN "fatal" ELSE "returned")

\* l, err := net.Listen("tcp", addr) succeeds; return srv.Serve(l)
ListenOk ==
  /\ run = "listen"
  /\ run' = "serving"
  /\ UNCHANGED <<runErr, cfgVars, orchVars, trackVars, watchVars, chanVars>>
  /\ UNCHANGED <<connVars, userVars>>

\* net.Listen fails: ListenAndServe returns the error to Run
ListenFails ==
  /\ run = "listen"
  /\ RunHandle("listen")
  /\ UNCHANGED <<cfgVars, orchVars, trackVars, watchVars, chanVars>>
  /\ UNCHANGED <<connVars, userVars>>

\* srv.Serve(l) has returned: ListenAndServe returns its error to Run
ServeReturns ==
  /\ run = "serving"
  /\ opc = "returned"
  /\ \E e \in ErrorsOf(ret) : RunHandle(e)
  /\ UNCHANGED <<cfgVars, orchVars, trackVars, watchVars, chanVars>>
  /\ UNCHANGED <<connVars, userVars>>

\* Run builds the Server with Timeout and the http.Server only: Signal and
\* Cancel are nil, and Serve has not been called yet.
RunInit ==
  /\ ServeInit
  /\ ~Signal
  /\ ~Cancel
  /\ run = "listen"
  /\ runErr = "none"

\* The goroutines of Serve run from the call of Serve until the process
\* exits in logger.Fatal.
RunServing == run \in {"serving", "returned"}

\* Serve under Run: the watcher's select has the default signal channel
\* only, and notifications come from the operating system.
RunNext ==
  \/ ListenOk
  \/ ListenFails
  \/ ServeReturns
  \/ RunServing /\ Engine
  \/ RunServing /\ \E c \in Conns : Hook(c)
  \/ RunServing /\ Tracker
  \/ RunServing /\ Orchestrator
  \/ RunServing /\ TimerFire
  \/ RunServing /\ WatcherWakeStop
  \/ RunServing /\ WatcherWakeSig
  \/ RunServing /\ WatcherSignalStop
  \/ RunServing /\ WatcherCloseListener
  \/ RunServing /\ OSSignal

RunSpec == RunInit /\ [][RunNext]_vars

\* Scheduling: every goroutine that can take a step eventually takes one, a
\* select with a ready case eventually takes each case that stays ready, a
\* running timer fires, and the serve loop returns once its listener is
\* closed.  A connection that is being served eventually finishes its
\* request (reports Closed).  Nothing forces a notification, an accept, or
\* a fault of the serve loop.
FairSpec ==
  /\ Spec
  /\ WF_vars(ServeLoopClosed)
  /\ WF_vars(CloseStopListener \/ OrchTimeout)
  /\ WF_vars(TimerFire)
  /\ WF_vars(Tracker)
  /\ WF_vars(Watcher)
  /\ \A c \in Conns : WF_vars(Hook(c))
  /\ \A c \in Conns : WF_vars(cstate[c] = "Active" /\ Report(c, "Closed"))

\* ------------------------------------------------------------- properties
ServeLoopReturned == opc /= "serving"
ServeReturned == opc = "returned"
TrackerExited == tpc \in {"drained", "killed"}

\* C1: with Timeout > 0, once the serve loop has returned Serve eventually
\* returns under every interleaving of the timer with the tracker, and
\* Serve and the tracker are never blocked on each other (Serve in its
\* kill send while the tracker is in its done send).
C1_ServeReturnsWithTimeout ==
  /\ (Timeout > 0 /\ ServeLoopReturned) ~> ServeReturned
  /\ [](~(opc = "sendKill" /\ tpc = "sendDone"))

IsPrefix(a, b) == Len(a) <= Len(b) /\ SubSeq(b, 1, Len(a)) = a

\* C2: every state the engine reports through the installed hook is
\* eventually passed to the caller's ConnState observer, exactly once and
\* in the reported order per connection, also after the tracker has exited.
\* (The model covers a Server whose ConnState is set.)
C2_ObserverGetsEveryEvent ==
  \A c \in Conns :
    /\ [](IsPrefix(observed[c], reported[c]))
    /\ (Len(observed[c]) < Len(reported[c])) ~> (observed[c] = reported[c])

\* C3: when the timeout elapsed and the kill request was honoured, every
\* connection in the tracked set has been force-closed by the time Serve
\* has returned.
C3_KillDoneAtReturn ==
  (ServeReturned /\ tpc \in {"killing", "killed"}) => connections \subseteq forceClosed

\* C4: with Timeout = 0 Serve never takes the kill path, no connection is
\* force-closed, and Serve has not returned while the tracked set is
\* non-empty.
C4_NoTimeoutNeverKills ==
  Timeout = 0 =>
    /\ opc /= "sendKill"
    /\ tpc \notin {"killing", "killed"}
    /\ forceClosed = {}
    /\ (ServeReturned => connections = {})

C4_Witness ==
  /\ Timeout = 0
  /\ ServeReturned
  /\ everTracked /= {}
  /\ connections = {}

\* C5: with Timeout = 0, once the serve loop has returned, the notifier is
\* eventually signalled and Serve returns, unless some tracked connection
\* never reports Closed or Idle (in the model: it was hijacked while
\* tracked; the fairness of FairSpec makes every other one report).
StuckTracked == \E c \in connections : cstate[c] = "Hijacked"

C5_DrainCompletesWithoutTimeout ==
  (Timeout = 0 /\ ServeLoopReturned) ~> ((ServeReturned /\ tpc = "drained") \/ StuckTracked)

C5_Witness ==
  /\ Timeout = 0
  /\ ServeReturned
  /\ tpc = "drained"
  /\ doneBy = "remove"
  /\ everTracked = Conns
  /\ \A c \in Conns : cstate[c] \in {"Closed", "Idle"}

\* C6: if no connection was ever tracked, the tracker answers the stop
\* request at once and Serve neither waits out the timeout nor goes on to
\* send kill, whatever Timeout is.
C6_NoConnectionsDrainAtOnce ==
  (everTracked = {} /\ nStop > 0) =>
    /\ tpc \in {"sendDone", "drained"}
    /\ opc \in {"wait", "returned"}

\* C7: the watcher's teardown (keep-alives off, listener closed) runs at
\* most once and, once any of signal, cancel or the end of the serve loop
\* has occurred, exactly once; the stop request is sent exactly once; a
\* signal alone and a cancel alone each lead to the listener being closed.
C7_Safety ==
  /\ listenerCloses <= 1
  /\ nKeepOff <= 1
  /\ nStop <= 1
  /\ (wpc = "done" => listenerCloses = 1 /\ nKeepOff = 1)
  /\ (opc \in {"wait", "sendKill", "returned"} => nStop = 1)

ShutdownOccurred ==
  \/ sig /\ sigBuf > 0
  \/ Cancel /\ cancelClosed
  \/ ServeLoopReturned

C7_TeardownExactlyOnce ==
  /\ []C7_Safety
  /\ ShutdownOccurred ~> (listenerCloses = 1)

C7_Witness ==
  /\ Signal
  /\ Cancel
  /\ wokenBy = "sig"
  /\ cancelClosed
  /\ err = "closed"
  /\ wpc = "done"
  /\ ServeReturned
  /\ listenerCloses = 1
  /\ nStop = 1

\* C8: a notification delivered on Signal or Cancel after the watcher has
\* consumed its first event changes nothing in the watcher, the tracker or
\* Serve (the timer included) and does not fail in the party delivering it.
C8_LateNotificationIsNoop ==
  [][(wokenBy /= "none" /\ (nSent' /= nSent \/ cancelClosed' /= cancelClosed))
       => (UNCHANGED <<orchVars, trackVars, watchVars>> /\ ~panicked')]_vars

\* C9: when Serve has returned, the watcher goroutine has finished its
\* whole teardown.
C9_WatcherDoneAtReturn == ServeReturned => wpc = "done"

\* C10: once the watcher has finished its teardown no connection is
\* accepted any more; a step of the watcher closes no connection and
\* changes no connection's state or tracking; a connection is force-closed
\* only by the kill loop, and otherwise reports Closed only by itself.
C10_Step ==
  /\ wpc = "done" => \A c \in Conns : cstate[c] = "none" => cstate'[c] = "none"
  /\ wpc' /= wpc => UNCHANGED <<forceClosed, connections, cstate, hpc>>
  /\ forceClosed' /= forceClosed => tpc = "killing"
  /\ \A c \in Conns :
       (cstate[c] /= "Closed" /\ cstate'[c] = "Closed") => hpc[c] = "idle"

C10_ListenerClosedConnectionsKept == [][C10_Step]_vars

C10_Witness ==
  /\ wpc = "done"
  /\ wokenBy \in {"sig", "cancel"}
  /\ listenerCloses = 1
  /\ \E c \in connections : cstate[c] = "Active" /\ c \notin forceClosed
  /\ \E c \in Conns : cstate[c] = "none"

\* C11: whenever Serve has returned, its return value is the value the
\* serve loop returned, on the drain path and on the kill path alike; it
\* has no return value before.
C11_ReturnsServeLoopError ==
  /\ ServeReturned => (ret = err /\ err \in {"closed", "fault"})
  /\ ~ServeReturned => ret = "none"

C11_Witness ==
  /\ ServeReturned
  /\ tpc \in {"killing", "killed"}
  /\ err = "closed"
  /\ ret = "closed"

\* C13: while the tracker is alive and a connection's last reported state
\* has been processed, the connection is in the tracked set if and only if
\* that state is Active.
TrackerAlive == tpc = "select"

C13_TrackedIffActive ==
  TrackerAlive =>
    \A c \in Conns : hpc[c] = "idle" => (c \in connections <=> cstate[c] = "Active")

\* C14: the tracker sends on done only after it received the stop request
\* and only with an empty map, at most once; a remove that leaves other
\* connections in the map does not make it send.
C14_State ==
  /\ (doneBy /= "none") <=> (tpc \in {"sendDone", "drained"})
  /\ tpc \in {"sendDone", "drained"} => (done /\ nStop = 1 /\ connections = {})

C14_Step ==
  /\ tpc = "drained" => tpc' = "drained"
  /\ doneBy /= "none" => doneBy' = doneBy
  /\ connections' /= {} => tpc' \notin {"sendDone", "drained"}

C14_DoneOnlyWhenDrained == []C14_State /\ [][C14_Step]_vars

C14_Witness ==
  /\ tpc = "drained"
  /\ doneBy = "remove"
  /\ Cardinality(everTracked) = 1
  /\ \E c \in Conns \ everTracked : cstate[c] = "Closed" /\ hpc[c] = "idle"

\* C15: the tracker ends drained or killed, never both: when Serve returned
\* after the tracker sent on done, the tracker has returned as drained, no
\* kill was sent and nothing was force-closed; when the kill was honoured,
\* the tracker never sent on done.
C15_SingleWinner ==
  /\ (ServeReturned /\ doneBy /= "none") => (tpc = "drained" /\ forceClosed = {})
  /\ tpc = "drained" => (ServeReturned /\ forceClosed = {})
  /\ tpc \in {"killing", "killed"} => (doneBy = "none" /\ ServeReturned)
  /\ forceClosed /= {} => tpc \in {"killing", "killed"}

C15_Witness ==
  /\ tpc = "killed"
  /\ forceClosed /= {}
  /\ done
  /\ doneBy = "none"

\* C17: Serve goes on to kill only with Timeout > 0, after the serve loop
\* returned and the tracker received the stop request, and after the timer
\* started at that moment has fired; the timer does not run before; no
\* connection is force-closed while the serve loop runs.
C17_State ==
  /\ (opc = "sendKill" \/ tpc \in {"killing", "killed"}) =>
       (Timeout > 0 /\ ServeLoopReturned /\ nStop = 1 /\ timer = "fired")
  /\ timer /= "off" => (Timeout > 0 /\ nStop = 1 /\ opc \in {"wait", "sendKill", "returned"})
  /\ opc = "serving" => forceClosed = {}

C17_KillOnlyAfterDrainTimeout ==
  []C17_State /\ [][(timer = "off" /\ timer' /= "off") => (nStop = 0 /\ nStop' = 1)]_vars

C17_Witness ==
  /\ tpc = "killed"
  /\ forceClosed /= {}
  /\ wokenBy = "sig"
  /\ err = "closed"
  /\ timer = "fired"

\* C16: every call of the installed hook eventually returns: no connection
\* goroutine stays blocked in its send on add or remove.
C16_HookCallReturns ==
  \A c \in Conns : (hpc[c] /= "idle") ~> (hpc[c] = "idle")

\* C19: signal.Notify is called if and only if neither Signal nor Cancel
\* was supplied; the registration is undone by one signal.Stop in the
\* watcher's teardown, which follows every shutdown event, the serve loop
\* ending on its own included.
C19_State ==
  /\ nNotify = (IF ~Signal /\ ~Cancel THEN 1 ELSE 0)
  /\ nSigStop <= 1
  /\ notified => (nNotify = 1 /\ nSigStop = 0)
  /\ wpc \in {"closing", "done"} => (~notified /\ (nNotify = 1 => nSigStop = 1))

C19_DefaultSignalRegistration ==
  /\ []C19_State
  /\ (nNotify = 1 /\ ShutdownOccurred) ~> (~notified /\ nSigStop = 1)

C19_Witness ==
  /\ nNotify = 1
  /\ nSent = 0
  /\ wokenBy = "stop"
  /\ wpc = "done"
  /\ nSigStop = 1
  /\ ~notified

\* C18 (as stated): once the tracker holds the stop request's done channel
\* no step adds a connection to the tracked set.
C18_NoAddWhileDraining == [][done => connections' \subseteq connections]_vars

\* C18 (amended): an add received while the tracker is draining inserts the
\* connection and leaves the tracker in its loop, and the tracker goes on
\* to send on done only from an empty set, late members included.
C18_Step ==
  /\ \A c \in Conns :
       (done /\ hpc[c] = "add" /\ hpc'[c] = "idle") =>
         (c \in connections' /\ tpc' = "select")
  /\ (done /\ tpc = "select" /\ tpc' = "sendDone") => connections' = {}

C18_LateAddIsTracked == [][C18_Step]_vars

C18_Witness ==
  /\ lateTracked
  /\ ServeReturned
  /\ tpc = "drained"
  /\ doneBy = "remove"

\* C12: once Run has dealt with ListenAndServe's result, it returned
\* without terminating the process exactly when the result was nil or the
\* accept error of a closed listener, and terminated the process for every
\* other error.
C12_SuppressOnlyClosedAccept ==
  (run \in {"returned", "fatal"}) =>
    ((run = "returned") <=> (runErr \in {"nil", "acceptClosed"}))

====
